---- MODULE Spec2Model ----
(***************************************************************************)
(* A model of langfun/core/coding/python/execution.py:                     *)
(*   - the isolation runner: sandbox_call / sandbox_run, a parent process  *)
(*     and one worker process joined by a multiprocessing.Queue;           *)
(*   - the context store: context(...) / get_context();                    *)
(*   - the evaluation engine: run(code, perm, **kwargs).                   *)
(***************************************************************************)
EXTENDS Integers, Sequences, FiniteSets, TLC

(***************************************************************************)
(* Bounds of the model.                                                    *)
(***************************************************************************)
\* Largest timeout (in clock ticks) a caller passes.
MaxTimeout == 2
\* Capacity of the pipe under the queue, in units of data.
PipeCap == 2
\* How far the largest message exceeds the pipe's capacity, in units of data.
MaxOver == 1

\* Deepest nesting of context(...) blocks.
MaxDepth == 2
\* Largest number of top-level statements of a program given to run.
MaxStmts == 2

\* Python's None, and a present optional value.
None == <<>>
Some(v) == <<v>>

(***************************************************************************)
(* Values and their transport.  The worker sends pg.to_json_str(value), a  *)
(* string, or the exception object itself; multiprocessing pickles both.   *)
(***************************************************************************)
\* v is the number, or the code of the string's text.
IntV(n) == [t |-> "int", v |-> n]
StrV(s) == [t |-> "str", v |-> s]
\* A value with no JSON form (pg.to_json_str raises on it).
OpaqueV == [t |-> "object", v |-> 0]
NoneV == [t |-> "none", v |-> 0]

Values == {IntV(7), StrV(7), OpaqueV}

Transportable(v) == v.t \in {"int", "str"}

\* Faults.
Err(x) == [type |-> "Err", isException |-> TRUE, content |-> x]
TypeErrorOf(v) == [type |-> "TypeError", isException |-> TRUE, content |-> v.t]
SystemExitFault == [type |-> "SystemExit", isException |-> FALSE, content |-> "exit"]
TimeoutError == [type |-> "TimeoutError", isException |-> TRUE, content |-> "timeout"]

\* pg.to_json_str: the JSON text of a value, as a sequence of tokens.
to_json_str(v) ==
  CASE v.t = "int" -> <<"num", v.v>>
    [] v.t = "str" -> <<"quote", v.v, "quote">>

\* pg.from_json_str: the value a JSON text denotes.
from_json_str(s) ==
  CASE s[1] = "num" -> IntV(s[2])
    [] s[1] = "quote" -> StrV(s[2])

(***************************************************************************)
(* The callable handed to sandbox_call, by what it does inside the worker. *)
(*   kind: "return" (val), "raise" (an Exception), "raise_base" (a         *)
(*   BaseException that is no Exception), "exit" (os._exit), "never"       *)
(*   (does not terminate);                                                 *)
(*   size: the size of the message its outcome makes on the channel;       *)
(*   installs: whether it installs its own SIGTERM handler first.          *)
(***************************************************************************)
MsgSizes == 1..(PipeCap + MaxOver)

Funcs ==
  [kind : {"return"}, val : Values, size : MsgSizes, installs : BOOLEAN]
    \cup [kind : {"raise"}, val : {Err("x")}, size : MsgSizes, installs : BOOLEAN]
    \cup [kind : {"raise_base"}, val : {SystemExitFault}, size : {1}, installs : BOOLEAN]
    \cup [kind : {"exit", "never"}, val : {NoneV}, size : {1}, installs : BOOLEAN]

Timeouts == {None} \cup {Some(t) : t \in 1..MaxTimeout}

\* A dict is a function from the names it binds to their values.
EmptyDict == <<>>

\* d.update(kw)
Update(d, kw) ==
  [k \in DOMAIN d \cup DOMAIN kw |-> IF k \in DOMAIN kw THEN kw[k] ELSE d[k]]

\* The caller's keyword arguments (bindings): none, or x=1.
KwargSets == {EmptyDict, [n \in {"x"} |-> IntV(1)]}

VARIABLES
  api,          \* which entry point the caller used: "none", "sandbox_call", "sandbox_run"
  reqTimeout,   \* the timeout the caller asked for
  reqKwargs,    \* the keyword arguments the caller passed
  func,         \* the callable's behaviour
  timeout,      \* sandbox_call's timeout parameter
  kwargs,       \* the keyword arguments the worker passes to the callable
  pPc,          \* parent position: "idle","start","join","is_alive","terminate","get","done"
  wPc,          \* worker process: "unstarted","running","exiting","dead"
  elapsed,      \* clock ticks since p.join began
  handler,      \* the worker's SIGTERM disposition: "default" or "ignore"
  sigterm,      \* a SIGTERM is pending for the worker
  completed,    \* None, or Some(elapsed) at the moment the callable returned or raised
  qbuf,         \* the queue's buffer in the worker: None or Some(message)
  written,      \* units of the message the feeder thread has written to the pipe
  pipe,         \* units of data in the pipe
  recvd,        \* units of the message the parent has read
  outcome,      \* the call's outcome: [kind |-> "none" | "return" | "raise", val]
  reaped,       \* the parent has collected the ended worker (waitpid succeeded)
  \* --- the context store ---
  stack,        \* the thread-local list under _TLS_CODE_RUN_CONTEXT: a sequence of dicts
  blocks,       \* the open context(...) blocks, outermost first
  raising,      \* a fault is propagating out of the innermost open block's body
  restored,     \* None, or Some(m): a block has just exited, and m is what
                \* get_context() returned just before that block began
  got,          \* None, or Some(r): the caller has just called get_context() and
                \* changed the mapping it returned; r.returned is that mapping as
                \* returned, r.change how the caller changed it, r.before the
                \* list as it was at the call
  \* --- the evaluation engine ---
  runPc,        \* "idle", or "done" once a call of run has ended
  runCode,      \* the source given to run
  runKwargs,    \* the keyword arguments given to run
  runOut,       \* how the call ended
  runApi,       \* the entry point the caller used: "none", "run", "sandbox_run"
  callerKwargs, \* the bindings the caller passed to that entry point
  prior         \* the names of CtxNames bound by the map the previous call returned

ctxVars == <<stack, blocks, raising, restored, got>>
runVars == <<runPc, runCode, runKwargs, runOut, runApi, callerKwargs, prior>>

sbVars == <<api, reqTimeout, reqKwargs, func, timeout, kwargs, pPc, wPc, elapsed,
            handler, sigterm, completed, qbuf, written, pipe, recvd, outcome, reaped>>

NoOutcome == [kind |-> "none", val |-> NoneV]

SbInit ==
  /\ api = "none"
  /\ reqTimeout = None
  /\ reqKwargs = EmptyDict
  /\ func = [kind |-> "exit", val |-> NoneV, size |-> 1, installs |-> FALSE]
  /\ timeout = None
  /\ kwargs = EmptyDict
  /\ pPc = "idle"
  /\ wPc = "unstarted"
  /\ elapsed = 0
  /\ handler = "default"
  /\ sigterm = FALSE
  /\ completed = None
  /\ qbuf = None
  /\ written = 0
  /\ pipe = 0
  /\ recvd = 0
  /\ outcome = NoOutcome
  /\ reaped = FALSE

(***************************************************************************)
(* The parent: sandbox_call, lines 138-149.                                *)
(***************************************************************************)
\* The state sandbox_call(func, timeout=t, **kw) leaves after creating q and p.
EnterSandboxCall(f, t, kw) ==
  /\ func' = f
  /\ timeout' = t
  /\ kwargs' = kw
  /\ pPc' = "start"
  /\ reaped' = FALSE
  /\ UNCHANGED <<wPc, elapsed, handler, sigterm, completed, qbuf, written, pipe,
                 recvd, outcome>>
  /\ UNCHANGED <<ctxVars, runVars>>

\* A caller calls sandbox_call(func, timeout=t, **kw).
sandbox_call ==
  /\ pPc = "idle"
  /\ \E f \in Funcs, t \in Timeouts, kw \in KwargSets :
       /\ api' = "sandbox_call"
       /\ reqTimeout' = t
       /\ reqKwargs' = kw
       /\ EnterSandboxCall(f, t, kw)

\* The timeout t as a value: None, or the number of seconds.
TimeoutValue(t) == IF t = None THEN NoneV ELSE IntV(t[1])

\* The keyword arguments sandbox_run hands to sandbox_call for a timeout t, which
\* sandbox_call hands to run: line 174 passes time=timeout along with **kwargs.
SandboxRunKwargs(t, kw) == Update(kw, [n \in {"time"} |-> TimeoutValue(t)])

\* The timeout sandbox_run hands to sandbox_call for a timeout t.
SandboxRunTimeout(t) == None

\* A caller calls sandbox_run(code, perm, timeout=t, **kw); f is what run does on
\* that code inside the worker.
sandbox_run ==
  /\ pPc = "idle"
  /\ \E f \in Funcs, t \in Timeouts, kw \in KwargSets :
       /\ api' = "sandbox_run"
       /\ reqTimeout' = t
       /\ reqKwargs' = kw
       /\ EnterSandboxCall(f, SandboxRunTimeout(t), SandboxRunKwargs(t, kw))

\* p.start()
p_start ==
  /\ pPc = "start"
  /\ pPc' = "join"
  /\ wPc' = "running"
  /\ UNCHANGED <<api, reqTimeout, reqKwargs, func, timeout, kwargs, elapsed, handler,
                 sigterm, completed, qbuf, written, pipe, recvd, outcome>>
  /\ UNCHANGED <<reaped, ctxVars, runVars>>

\* Time passes while the parent waits in p.join(timeout).
Tick ==
  /\ pPc = "join"
  /\ timeout # None
  /\ elapsed < timeout[1]
  /\ elapsed' = elapsed + 1
  /\ UNCHANGED <<api, reqTimeout, reqKwargs, func, timeout, kwargs, pPc, wPc, handler,
                 sigterm, completed, qbuf, written, pipe, recvd, outcome>>
  /\ UNCHANGED <<reaped, ctxVars, runVars>>

\* The wait bound of p.join(timeout) has passed.
Expired == IF timeout = None THEN FALSE ELSE elapsed = timeout[1]

\* Process.join and Process.is_alive poll the worker with waitpid: an ended worker
\* is collected by the poll, a live one is not.
Polled == IF wPc = "dead" THEN TRUE ELSE reaped

\* p.join(timeout=timeout) returns: the worker has ended, or the bound has expired.
p_join ==
  /\ pPc = "join"
  /\ IF wPc = "dead" THEN TRUE ELSE Expired
  /\ pPc' = "is_alive"
  /\ reaped' = Polled
  /\ UNCHANGED <<api, reqTimeout, reqKwargs, func, timeout, kwargs, wPc, elapsed,
                 handler, sigterm, completed, qbuf, written, pipe, recvd, outcome>>
  /\ UNCHANGED <<ctxVars, runVars>>

\* if p.is_alive():
p_is_alive ==
  /\ pPc = "is_alive"
  /\ pPc' = IF wPc # "dead" THEN "terminate" ELSE "get"
  /\ reaped' = Polled
  /\ UNCHANGED <<api, reqTimeout, reqKwargs, func, timeout, kwargs, wPc, elapsed,
                 handler, sigterm, completed, qbuf, written, pipe, recvd, outcome>>
  /\ UNCHANGED <<ctxVars, runVars>>

\* p.terminate(); raise TimeoutError(...)
p_terminate ==
  /\ pPc = "terminate"
  /\ sigterm' = (wPc # "dead")
  /\ pPc' = "done"
  /\ outcome' = [kind |-> "raise", val |-> TimeoutError]
  /\ UNCHANGED <<api, reqTimeout, reqKwargs, func, timeout, kwargs, wPc, elapsed,
                 handler, completed, qbuf, written, pipe, recvd>>
  /\ UNCHANGED <<reaped, ctxVars, runVars>>

(***************************************************************************)
(* The worker: _call, lines 132-136, and the queue's feeder thread.        *)
(***************************************************************************)
\* The callable installs its own SIGTERM handler (it may do anything in the worker).
InstallHandler ==
  /\ wPc = "running"
  /\ func.installs
  /\ handler = "default"
  /\ handler' = "ignore"
  /\ UNCHANGED <<api, reqTimeout, reqKwargs, func, timeout, kwargs, pPc, wPc, elapsed,
                 sigterm, completed, qbuf, written, pipe, recvd, outcome>>
  /\ UNCHANGED <<reaped, ctxVars, runVars>>

\* A str object holding the text s.
StrObj(s) == [cls |-> "str", text |-> s]

\* isinstance(x, Exception)
IsException(x) == IF "isException" \in DOMAIN x THEN x.isException ELSE FALSE

\* The queue pickles what is put and unpickles what is got: a str by its text, an
\* exception by its class and arguments.
Pickle(x) ==
  IF "cls" \in DOMAIN x
    THEN <<"str", x.text>>
    ELSE <<"exc", x.type, x.content>>

Unpickle(b) ==
  IF b[1] = "str"
    THEN StrObj(b[2])
    ELSE [type |-> b[2], isException |-> TRUE, content |-> b[3]]

\* What _call puts on the queue when the callable f has returned or raised an
\* Exception: the JSON string of the value, or the exception object.
CallObject(f) ==
  IF f.kind = "return" /\ Transportable(f.val)
    THEN StrObj(to_json_str(f.val))
    ELSE IF f.kind = "return" THEN TypeErrorOf(f.val) ELSE f.val

\* The message that object makes on the channel.
CallMessage(f) == [body |-> Pickle(CallObject(f)), size |-> f.size]

\* Whether _call's try/except reaches a q.put for the callable f.
CallPuts(f) == f.kind \in {"return", "raise"}

\* _call(q, *args, **kwargs): the callable runs to its end and _call puts its
\* outcome on the queue, or the process leaves _call without a put.
call ==
  /\ wPc = "running"
  /\ func.installs => handler = "ignore"
  /\ func.kind # "never"
  /\ IF CallPuts(func)
       THEN /\ qbuf' = Some(CallMessage(func))
            /\ completed' = Some(elapsed)
            /\ wPc' = "exiting"
       ELSE /\ qbuf' = qbuf
            /\ completed' = IF func.kind = "raise_base" THEN Some(elapsed) ELSE completed
            /\ wPc' = IF func.kind = "exit" THEN "dead" ELSE "exiting"
  /\ UNCHANGED <<api, reqTimeout, reqKwargs, func, timeout, kwargs, pPc, elapsed,
                 handler, sigterm, written, pipe, recvd, outcome>>
  /\ UNCHANGED <<reaped, ctxVars, runVars>>

\* The feeder thread writes as much of the buffered message as the pipe takes.
Room == PipeCap - pipe
Chunk == IF qbuf[1].size - written < Room THEN qbuf[1].size - written ELSE Room

feed ==
  /\ wPc = "exiting"
  /\ qbuf # None
  /\ written < qbuf[1].size
  /\ Room > 0
  /\ written' = written + Chunk
  /\ pipe' = pipe + Chunk
  /\ UNCHANGED <<api, reqTimeout, reqKwargs, func, timeout, kwargs, pPc, wPc, elapsed,
                 handler, sigterm, completed, qbuf, recvd, outcome>>
  /\ UNCHANGED <<reaped, ctxVars, runVars>>

\* The worker process exits: at exit the queue joins its feeder thread, so the
\* process ends only once the whole buffered message is in the pipe.
Flushed == IF qbuf = None THEN TRUE ELSE written = qbuf[1].size

worker_exit ==
  /\ wPc = "exiting"
  /\ Flushed
  /\ wPc' = "dead"
  /\ UNCHANGED <<api, reqTimeout, reqKwargs, func, timeout, kwargs, pPc, elapsed,
                 handler, sigterm, completed, qbuf, written, pipe, recvd, outcome>>
  /\ UNCHANGED <<reaped, ctxVars, runVars>>

\* The SIGTERM of p.terminate() reaches the worker: it ends the process unless the
\* callable replaced the handler.
deliver_sigterm ==
  /\ sigterm
  /\ wPc \in {"running", "exiting"}
  /\ sigterm' = FALSE
  /\ wPc' = IF handler = "default" THEN "dead" ELSE wPc
  /\ UNCHANGED <<api, reqTimeout, reqKwargs, func, timeout, kwargs, pPc, elapsed,
                 handler, completed, qbuf, written, pipe, recvd, outcome>>
  /\ UNCHANGED <<reaped, ctxVars, runVars>>

(***************************************************************************)
(* The parent again: x = q.get() and lines 147-149.                        *)
(***************************************************************************)
\* Lines 147-149: the outcome of sandbox_call once q.get() has returned x.
Deliver(x) ==
  IF IsException(x)
    THEN [kind |-> "raise", val |-> x]
    ELSE [kind |-> "return", val |-> from_json_str(x.text)]

\* q.get() reads what is in the pipe and returns once a whole message is read.
q_get ==
  /\ pPc = "get"
  /\ pipe > 0
  /\ recvd' = recvd + pipe
  /\ pipe' = 0
  /\ IF recvd + pipe = qbuf[1].size
       THEN /\ outcome' = Deliver(Unpickle(qbuf[1].body))
            /\ pPc' = "done"
       ELSE UNCHANGED <<outcome, pPc>>
  /\ UNCHANGED <<api, reqTimeout, reqKwargs, func, timeout, kwargs, wPc, elapsed,
                 handler, sigterm, completed, qbuf, written>>
  /\ UNCHANGED <<reaped, ctxVars, runVars>>

SbNext ==
  \/ sandbox_call
  \/ sandbox_run
  \/ p_start
  \/ Tick
  \/ p_join
  \/ p_is_alive
  \/ p_terminate
  \/ q_get
  \/ InstallHandler
  \/ call
  \/ feed
  \/ worker_exit
  \/ deliver_sigterm

(***************************************************************************)
(* Properties of the isolation runner.                                     *)
(***************************************************************************)
Raised(e) == outcome = [kind |-> "raise", val |-> e]
Returned(v) == outcome = [kind |-> "return", val |-> v]

\* C1 (timeout enforcement): once sandbox_call has raised TimeoutError on a callable
\* that never returns, the worker process is no longer running, whatever the
\* callable did in the worker.
\* (Stated for the states in which the SIGTERM of p.terminate() is no longer
\* pending, the reading kindest to the code.)
C1_TimeoutReclaimsWorker ==
  (func.kind = "never" /\ Raised(TimeoutError) /\ ~sigterm) => wPc = "dead"

\* The worker process has ended without a message on the channel.
CrashedSilently == wPc = "dead" /\ func.kind \in {"exit", "raise_base"}

\* C2 (worker crash detection): when the worker has ended without writing a message,
\* sandbox_call never returns a value, and it has raised a fault or can still move
\* on: it is not blocked for ever on the empty channel.
C2_CrashSurfaces ==
  CrashedSilently =>
    /\ outcome.kind # "return"
    /\ IF pPc = "done" THEN outcome.kind = "raise" ELSE ENABLED SbNext

\* C3 (sandbox_run enforces its timeout): sandbox_run(code, perm, timeout=T, **kw)
\* makes T the wait bound of sandbox_call and passes run exactly kw, so on code that
\* never finishes, with T not None, the call is never blocked for ever.
C3_SandboxRunBound ==
  (api = "sandbox_run" /\ pPc # "idle") =>
    /\ timeout = reqTimeout
    /\ kwargs = reqKwargs
    /\ (func.kind = "never" /\ reqTimeout # None /\ pPc # "done") => ENABLED SbNext

\* C4 (isolation determinism): on a callable that terminates and returns a
\* transportable value, of whatever size, sandbox_call(f, timeout=None) is never
\* blocked for ever, and what it ends with is the return of the value f returns.
C4_IsolationDeterminism ==
  (pPc # "idle" /\ timeout = None /\ func.kind = "return" /\ Transportable(func.val)) =>
    IF pPc = "done" THEN Returned(func.val) ELSE ENABLED SbNext

\* The callable returned or raised before the wait bound expired.
CompletedInTime ==
  IF completed = None THEN FALSE
  ELSE IF timeout = None THEN TRUE ELSE completed[1] < timeout[1]

\* C5 (fault fidelity): when the callable raised Err("x") before the timeout
\* expired, what sandbox_call ends with is a raise of a fault with that content: not
\* TimeoutError, not a value, and it is not blocked for ever.
C5_FaultFidelity ==
  (func.kind = "raise" /\ CompletedInTime) =>
    IF pPc = "done" THEN Raised(func.val) ELSE ENABLED SbNext

\* C16 (TimeoutError means the callable did not complete): sandbox_call raises
\* TimeoutError only with a timeout, never with timeout=None, and only if the
\* callable had neither returned nor raised inside the worker when the wait bound
\* expired.
\* (The second part is stated for outcomes larger than the pipe's capacity, the
\* reading kindest to the code: a worker that has written its whole message and is
\* merely slow to exit is not counted.)
C16_TimeoutMeansIncomplete ==
  /\ Raised(TimeoutError) => timeout # None
  /\ (Raised(TimeoutError) /\ func.size > PipeCap) => ~CompletedInTime

\* C12 (resource discipline): on every exit path of sandbox_call (a value returned,
\* the callable's fault re-raised, TimeoutError raised) the parent has collected
\* the ended worker process by the time control returns to the caller.
\* (Stated for the worker process alone, the reading kindest to the code: nothing
\* in sandbox_call closes the channel on any path.)
C12_ResourceDiscipline == pPc = "done" => wPc = "dead" /\ reaped

(***************************************************************************)
(* The context store: context(...) and get_context(), lines 32-48.         *)
(* A dict is a function from the names it binds to their values.  The list *)
(* in thread-local storage holds the dict objects themselves, and          *)
(* context(...) yields the very object it pushed.                          *)
(***************************************************************************)
CtxNames == {"x", "y"}
CtxVals == {IntV(1), IntV(2)}
\* The keyword arguments a caller passes: none, or one binding.
KwDicts == {EmptyDict} \cup UNION {[{n} -> CtxVals] : n \in CtxNames}

\* get_context(): a copy of the top dict, or {} when the list is empty or absent.
get_context(st) == IF Len(st) > 0 THEN st[Len(st)] ELSE EmptyDict

\* pg.object_utils.thread_local_push / thread_local_pop on the list.
thread_local_push(st, d) == Append(st, d)
thread_local_pop(st) == SubSeq(st, 1, Len(st) - 1)

CtxInit ==
  /\ stack = <<>>
  /\ blocks = <<>>
  /\ raising = FALSE
  /\ restored = None
  /\ got = None

\* with context(**kw): lines 35-40, up to the yield.
context_enter ==
  /\ ~raising
  /\ Len(blocks) < MaxDepth
  /\ \E kw \in KwDicts :
       LET ctx == Update(get_context(stack), kw)
       IN /\ stack' = thread_local_push(stack, ctx)
          /\ blocks' = Append(blocks, [saved |-> get_context(stack), kwargs |-> kw,
                                       at |-> Len(stack) + 1])
  /\ restored' = None
  /\ UNCHANGED raising
  /\ got' = None
  /\ UNCHANGED <<sbVars, runVars>>

\* The list after the block's exit, lines 41-42: the finally clause pops whether
\* the body ended normally or by a fault (isRaising).
ExitStack(st, isRaising) == thread_local_pop(st)

\* The innermost block exits, normally or because a fault leaves its body.
context_exit ==
  /\ Len(blocks) > 0
  /\ stack' = ExitStack(stack, raising)
  /\ restored' = Some(blocks[Len(blocks)].saved)
  /\ blocks' = SubSeq(blocks, 1, Len(blocks) - 1)
  /\ UNCHANGED raising
  /\ got' = None
  /\ UNCHANGED <<sbVars, runVars>>

\* The body of the innermost block raises.
body_raise ==
  /\ ~raising
  /\ Len(blocks) > 0
  /\ raising' = TRUE
  /\ restored' = None
  /\ got' = None
  /\ UNCHANGED <<stack, blocks>>
  /\ UNCHANGED <<sbVars, runVars>>

\* The caller catches the fault, in an enclosing body or outside every block.
catch ==
  /\ raising
  /\ raising' = FALSE
  /\ restored' = None
  /\ got' = None
  /\ UNCHANGED <<stack, blocks>>
  /\ UNCHANGED <<sbVars, runVars>>

\* The caller binds a name in the mapping that the i-th open block yielded
\* (with context(...) as ctx: ... ctx[k] = v): it is the dict on the list.
yielded_setitem ==
  /\ ~raising
  /\ \E i \in 1..Len(blocks), k \in CtxNames, v \in CtxVals :
       /\ blocks[i].at <= Len(stack)
       /\ stack' = [stack EXCEPT ![blocks[i].at] = Update(@, [n \in {k} |-> v])]
  /\ restored' = None
  /\ UNCHANGED <<blocks, raising>>
  /\ got' = None
  /\ UNCHANGED <<sbVars, runVars>>

(* A reference to a dict object: at is the object's place on the thread's  *)
(* list, 0 when the object is not on the list, and d is its content.       *)

\* A get_context that hands out the dict on top of the list itself.
GetContextLive(st) == [at |-> Len(st), d |-> get_context(st)]

\* The object get_context() returns, line 48: dict(context_stack[-1]) is a new
\* dict, and so is {}.
Snapshot(st) == [at |-> 0, d |-> get_context(st)]

\* What a caller does to a mapping it holds: m[k] = v (adding k or rebinding it),
\* or del m[k].
Changes ==
  [op : {"set"}, k : CtxNames, v : CtxVals] \cup [op : {"del"}, k : CtxNames, v : {NoneV}]
CanChange(d, c) == IF c.op = "del" THEN c.k \in DOMAIN d ELSE TRUE
Changed(d, c) ==
  IF c.op = "set" THEN Update(d, [n \in {c.k} |-> c.v])
  ELSE [n \in DOMAIN d \ {c.k} |-> d[n]]
\* "add", "rebind" or "remove".
ChangeKind(d, c) ==
  IF c.op = "del" THEN "remove" ELSE IF c.k \in DOMAIN d THEN "rebind" ELSE "add"

\* The list after the change c was made to the object ref.
WriteThrough(st, ref, c) ==
  IF ref.at \in 1..Len(st) THEN [st EXCEPT ![ref.at] = Changed(@, c)] ELSE st

\* The caller calls get_context() and changes the mapping it got.
get_context_call ==
  /\ ~raising
  /\ \E c \in Changes :
       LET ref == Snapshot(stack)
       IN /\ CanChange(ref.d, c)
          /\ got' = Some([returned |-> ref.d, change |-> ChangeKind(ref.d, c),
                          before |-> stack])
          /\ stack' = WriteThrough(stack, ref, c)
  /\ restored' = None
  /\ UNCHANGED <<blocks, raising>>
  /\ UNCHANGED <<sbVars, runVars>>

CtxNext ==
  \/ context_enter
  \/ context_exit
  \/ body_raise
  \/ catch
  \/ yielded_setitem

\* The scoped blocks, with callers that read the store through get_context().
SnapNext ==
  \/ context_enter
  \/ context_exit
  \/ body_raise
  \/ catch
  \/ get_context_call

\* C13 (get_context returns an independent snapshot): get_context() returns the
\* bindings on top of the list, the empty mapping when the list is empty, and
\* after the caller has added, removed or rebound a key in the mapping it got, the
\* list is as it was at the call and a later get_context() returns what that call
\* returned.
C13_SnapshotIndependent ==
  got # None =>
    /\ got[1].before = <<>> => got[1].returned = EmptyDict
    /\ got[1].before # <<>> => got[1].returned = got[1].before[Len(got[1].before)]
    /\ stack = got[1].before
    /\ get_context(stack) = got[1].returned

\* Inside two nested blocks the caller rebinds a key of the mapping get_context()
\* returned; the mapping had bindings, and the store still returns them.
C13_Witness ==
  /\ got # None
  /\ got[1].change = "rebind"
  /\ Len(stack) = 2
  /\ DOMAIN got[1].returned = CtxNames
  /\ get_context(stack) = got[1].returned

\* C6 (context scoping): right after a block has exited, normally or by a fault,
\* get_context() returns the mapping it returned just before that block began, and
\* with no block open the list is empty.
C6_ContextScoping ==
  /\ restored # None => get_context(stack) = restored[1]
  /\ Len(blocks) = 0 => stack = <<>>

\* The frame the i-th open block pushed: what get_context() returned when the
\* block began, overridden by the block's bindings.
Pushed(i) == Update(blocks[i].saved, blocks[i].kwargs)

\* C14 (a frame is immutable once pushed): while a context(...) block is open, the
\* frame it pushed is on the list as it was pushed, whatever the caller did with the
\* mapping the block yielded; so get_context(), a nested block and run see the
\* bindings the innermost open block pushed.
C14_FrameImmutable ==
  /\ \A i \in 1..Len(blocks) : blocks[i].at <= Len(stack) => stack[blocks[i].at] = Pushed(i)
  /\ Len(blocks) > 0 => get_context(stack) = Pushed(Len(blocks))

\* The bindings passed to the open blocks bs[1..i], outermost first, an inner
\* block's binding overriding an outer block's binding of the same name.
RECURSIVE Flattened(_, _)
Flattened(bs, i) ==
  IF i = 0 THEN EmptyDict ELSE Update(Flattened(bs, i - 1), bs[i].kwargs)

\* C15 (flattening invariant): in every reachable state get_context() is the union
\* of the bindings passed to all the open blocks, outermost to innermost, inner
\* overriding outer; so a name bound only by an outer block is visible, with the
\* outer block's value, inside every inner block.
C15_Flattening == get_context(stack) = Flattened(blocks, Len(blocks))

(***************************************************************************)
(* The evaluation engine: run(code, perm, **kwargs), lines 51-109.         *)
(*                                                                         *)
(* A program tree is a sequence of top-level statements, each an ast node  *)
(* given as a record with its class in the field node.  Expressions:       *)
(* Constant, Name, BinOp over two atoms, and the call exit().              *)
(***************************************************************************)
RESULT_KEY == "__result__"

Constant(n) == [node |-> "Constant", n |-> n]
Name(id) == [node |-> "Name", id |-> id]
BinOp(l, op, r) == [node |-> "BinOp", left |-> l, op |-> op, right |-> r]
CallExit == [node |-> "Call", func |-> "exit"]
TupleOf(id1, id2) == [node |-> "Tuple", elts |-> <<id1, id2>>]

Expr(e) == [node |-> "Expr", value |-> Some(e)]
Assign(ts, e) == [node |-> "Assign", targets |-> ts, value |-> Some(e)]
AugAssign(id, e) == [node |-> "AugAssign", target |-> id, value |-> Some(e)]
\* x: T = e, and x: T (value None).
AnnAssign(id, v) == [node |-> "AnnAssign", target |-> id, value |-> v]
Pass == [node |-> "Pass"]
\* for id in range(n): pass
For(id, n) == [node |-> "For", target |-> id, n |-> n]
\* def id(): pass
FunctionDef(id) == [node |-> "FunctionDef", name |-> id]

\* The statements programs are made of.
StmtTable ==
  << Expr(Constant(1)),                                   \* 1
     Expr(Name("x")),                                     \* x
     Expr(BinOp(Name("x"), "Add", Constant(1))),          \* x + 1
     Expr(BinOp(Constant(1), "Div", Constant(0))),        \* 1 / 0
     Expr(CallExit),                                      \* exit()
     Assign(<<Name("x")>>, Constant(2)),                  \* x = 2
     Assign(<<Name("x")>>, BinOp(Name("x"), "Add", Constant(1))),  \* x = x + 1
     Assign(<<Name("x"), Name("y")>>, Constant(2)),       \* x = y = 2
     Assign(<<TupleOf("x", "y")>>, Constant(1)),          \* x, y = 1
     AugAssign("x", Constant(1)),                         \* x += 1
     AnnAssign("x", Some(Constant(1))),                   \* x: int = 1
     AnnAssign("x", None),                                \* x: int
     Pass,                                                \* pass
     For("y", 0),                                         \* for y in range(0): pass
     For("y", 2),                                         \* for y in range(2): pass
     FunctionDef("y"),                                    \* def y(): pass
     Expr(Name("time")),                                  \* time
     FunctionDef("x") >>                                  \* def x(): pass

StmtIds == 1..Len(StmtTable)
Programs == UNION {[1..n -> StmtIds] : n \in 1..MaxStmts}

\* What the parser and policy checker make of a source.
ParseKinds == {"ok", "SyntaxError", "PolicyError"}
\* A source text: the program it spells, and what parsing it comes to.
Sources == [prog : Programs, parse : ParseKinds]

FunV == [t |-> "function", v |-> 0]
DictV == [t |-> "dict", v |-> 0]

NoFault == [type |-> "none", isException |-> FALSE, content |-> ""]
Fault(type, content) == [type |-> type, isException |-> TRUE, content |-> content]
\* errors.CodeError(code, e), raised "from e".
CodeError(code, e) == [type |-> "CodeError", isException |-> TRUE, code |-> code, cause |-> e]

(* A dict that keeps insertion order: a sequence of <<name, value>> pairs. *)
Has(d, k) == \E i \in 1..Len(d) : d[i][1] = k
Lookup(d, k) ==
  IF Has(d, k)
    THEN [found |-> TRUE, val |-> d[CHOOSE i \in 1..Len(d) : d[i][1] = k][2]]
    ELSE [found |-> FALSE, val |-> NoneV]
\* A dict in which binding a name again moves the name to the end.
SetItemMovingLast(d, k, v) ==
  Append(SelectSeq(d, LAMBDA p : p[1] # k), <<k, v>>)

\* d[k] = v: a name already in the dict keeps its place, a new name goes last.
SetItem(d, k, v) ==
  IF Has(d, k)
    THEN [i \in 1..Len(d) |-> IF d[i][1] = k THEN <<k, v>> ELSE d[i]]
    ELSE Append(d, <<k, v>>)

\* A name as evaluated code reads it: the locals first, then the globals.
Load(id, g, l) ==
  IF Has(l, id) THEN [fault |-> NoFault, val |-> Lookup(l, id).val]
  ELSE IF id \in DOMAIN g THEN [fault |-> NoFault, val |-> g[id]]
  ELSE [fault |-> Fault("NameError", id), val |-> NoneV]

EvalAtom(e, g, l) ==
  IF e.node = "Constant" THEN [fault |-> NoFault, val |-> IntV(e.n)]
  ELSE Load(e.id, g, l)

\* left op right on two values.
Apply(op, a, b) ==
  IF a.t # "int" \/ b.t # "int" THEN [fault |-> Fault("TypeError", op), val |-> NoneV]
  ELSE IF op = "Add" THEN [fault |-> NoFault, val |-> IntV(a.v + b.v)]
  ELSE IF b.v = 0 THEN [fault |-> Fault("ZeroDivisionError", op), val |-> NoneV]
  ELSE [fault |-> NoFault, val |-> IntV(a.v \div b.v)]

\* The value of an expression, or the fault evaluating it raises.
Eval(e, g, l) ==
  IF e.node \in {"Constant", "Name"} THEN EvalAtom(e, g, l)
  ELSE IF e.node = "Call" THEN [fault |-> SystemExitFault, val |-> NoneV]
  ELSE LET a == EvalAtom(e.left, g, l)
           b == EvalAtom(e.right, g, l)
       IN IF a.fault # NoFault THEN a
          ELSE IF b.fault # NoFault THEN b
          ELSE Apply(e.op, a.val, b.val)

\* Binding the value v to the assignment targets ts[i..], left to right.
RECURSIVE AssignTo(_, _, _, _)
AssignTo(ts, i, v, l) ==
  IF i > Len(ts) THEN [fault |-> NoFault, locals |-> l]
  ELSE IF ts[i].node = "Name" THEN AssignTo(ts, i + 1, v, SetItem(l, ts[i].id, v))
  ELSE [fault |-> Fault("TypeError", "unpack"), locals |-> l]

\* One statement executed against the globals g and the locals l.
ExecStmt(s, g, l) ==
  CASE s.node = "Expr" ->
         [fault |-> Eval(s.value[1], g, l).fault, locals |-> l]
    [] s.node = "Assign" ->
         LET r == Eval(s.value[1], g, l)
         IN IF r.fault # NoFault THEN [fault |-> r.fault, locals |-> l]
            ELSE AssignTo(s.targets, 1, r.val, l)
    [] s.node = "AugAssign" ->
         LET a == Load(s.target, g, l)
             b == Eval(s.value[1], g, l)
             c == Apply("Add", a.val, b.val)
         IN IF a.fault # NoFault THEN [fault |-> a.fault, locals |-> l]
            ELSE IF b.fault # NoFault THEN [fault |-> b.fault, locals |-> l]
            ELSE IF c.fault # NoFault THEN [fault |-> c.fault, locals |-> l]
            ELSE [fault |-> NoFault, locals |-> SetItem(l, s.target, c.val)]
    [] s.node = "AnnAssign" ->
         IF s.value = None THEN [fault |-> NoFault, locals |-> l]
         ELSE LET r == Eval(s.value[1], g, l)
              IN IF r.fault # NoFault THEN [fault |-> r.fault, locals |-> l]
                 ELSE [fault |-> NoFault, locals |-> SetItem(l, s.target, r.val)]
    [] s.node = "Pass" -> [fault |-> NoFault, locals |-> l]
    [] s.node = "For" ->
         [fault |-> NoFault,
          locals |-> IF s.n = 0 THEN l ELSE SetItem(l, s.target, IntV(s.n - 1))]
    [] s.node = "FunctionDef" ->
         [fault |-> NoFault, locals |-> SetItem(l, s.name, FunV)]

\* The statements body[i..] executed in order; trace lists, by position in the
\* program, each statement whose execution began.
RECURSIVE ExecFrom(_, _, _, _, _)
ExecFrom(body, i, g, l, trace) ==
  IF i > Len(body) THEN [fault |-> NoFault, locals |-> l, trace |-> trace]
  ELSE LET r == ExecStmt(body[i], g, l)
       IN IF r.fault # NoFault
            THEN [fault |-> r.fault, locals |-> r.locals,
                  trace |-> Append(trace, <<"exec", i>>)]
            ELSE ExecFrom(body, i + 1, g, r.locals, Append(trace, <<"exec", i>>))

\* exec(compile(block, '', mode='exec'), g, l): a block with an annotated
\* assignment first sets up __annotations__ in the locals.
Exec(body, g, l) ==
  LET annotated == \E i \in 1..Len(body) : body[i].node = "AnnAssign"
      l0 == IF annotated /\ ~Has(l, "__annotations__")
              THEN SetItem(l, "__annotations__", DictV) ELSE l
  IN ExecFrom(body, 1, g, l0, <<>>)

\* eval(compile(ast.Expression(value), '', mode='eval'), g, l): value is the
\* node's value field, which may be None: compile then rejects the tree
\* ("field 'body' is required for Expression", a ValueError).
EvalExpression(value, g, l) ==
  IF value = None THEN [fault |-> Fault("ValueError", "compile"), val |-> NoneV]
  ELSE Eval(value[1], g, l)

\* The program tree of a source, and the source text as the parser returns it.
Block(prog) == [i \in 1..Len(prog) |-> StmtTable[prog[i]]]
Normalized(code) == <<"clean", code.prog>>

\* parsing.PythonCodeParser().parse(code, perm), line 78: the cleaned source and the
\* program tree, or the parser's or the policy checker's fault.
Parse(code) ==
  IF code.parse = "ok"
    THEN [fault |-> NoFault, code |-> Normalized(code), block |-> Block(code.prog)]
    ELSE [fault |-> Fault(code.parse, "rejected"), code |-> Normalized(code),
          block |-> <<>>]

\* hasattr(node, 'value'), line 81.
HasValue(s) == "value" \in DOMAIN s

\* code_block.body after body.pop(), line 82: the statements before the last.
Preceding(body) == SubSeq(body, 1, Len(body) - 1)

\* Lines 86-87: result_vars.append(name_node.id) for each target; a target that is
\* no Name has no attribute id.
RECURSIVE TargetIds(_, _, _)
TargetIds(ts, i, acc) ==
  IF i > Len(ts) THEN [fault |-> NoFault, vars |-> acc]
  ELSE IF "id" \in DOMAIN ts[i] THEN TargetIds(ts, i + 1, Append(acc, ts[i].id))
  ELSE [fault |-> Fault("AttributeError", "id"), vars |-> acc]

\* A run that records the result under '__result__' alone.
ResultVarsKeyOnly(last) == [fault |-> NoFault, vars |-> <<RESULT_KEY>>]

\* result_vars, lines 83-87.
ResultVars(last) ==
  IF last.node = "Assign"
    THEN TargetIds(last.targets, 1, <<RESULT_KEY>>)
    ELSE [fault |-> NoFault, vars |-> <<RESULT_KEY>>]

\* A run whose try blocks let every fault through as it is.
WrapNothing(code, e) == e

\* except Exception as e: raise errors.CodeError(code, e) from e (lines 98-99 and
\* 106-107): what leaves run when the fault e is raised inside the try block.
Wrap(code, e) == IF IsException(e) THEN CodeError(code, e) ELSE e

\* A run that evaluates the trailing expression before the statements that precede it.
EvalLocalsBefore(before, after) == before

\* The locals the trailing expression is evaluated against (lines 96-97), given
\* the locals before and after the preceding statements ran.
EvalLocals(before, after) == after

\* Lines 101-102: local_vars[result_var] = result for each of result_vars.
RECURSIVE StoreAll(_, _, _, _)
StoreAll(l, rvars, i, v) ==
  IF i > Len(rvars) THEN l ELSE StoreAll(SetItem(l, rvars[i], v), rvars, i + 1, v)

NoRun == [kind |-> "none", locals |-> <<>>, fault |-> NoFault, trace |-> <<>>,
          phase |-> "none"]
\* run returns the dict l / a fault leaves run, raised in the given phase: "parse"
\* (line 78), "split" (81-89), "exec" (the try blocks), "result" (line 108).
RunReturn(l, trace) ==
  [kind |-> "return", locals |-> l, fault |-> NoFault, trace |-> trace, phase |-> "none"]
RunRaise(e, phase, trace) ==
  [kind |-> "raise", locals |-> <<>>, fault |-> e, trace |-> trace, phase |-> phase]

\* Lines 82-102: the last statement has a value.
RunWithResult(code, body, g) ==
  LET last == body[Len(body)]
      rv == ResultVars(last)
      r1 == Exec(Preceding(body), g, <<>>)
      r2 == EvalExpression(last.value, g, EvalLocals(<<>>, r1.locals))
      trace2 == Append(r1.trace, <<"eval", Len(body)>>)
  IN IF rv.fault # NoFault THEN RunRaise(rv.fault, "split", <<>>)
     ELSE IF r1.fault # NoFault THEN RunRaise(Wrap(code, r1.fault), "exec", r1.trace)
     ELSE IF r2.fault # NoFault THEN RunRaise(Wrap(code, r2.fault), "exec", trace2)
     ELSE RunReturn(StoreAll(r1.locals, rv.vars, 1, r2.val), trace2)

\* Lines 104-108: the last statement has no value.
RunForEffect(code, body, g) ==
  LET r == Exec(body, g, <<>>)
  IN IF r.fault # NoFault THEN RunRaise(Wrap(code, r.fault), "exec", r.trace)
     ELSE IF Len(r.locals) = 0
       THEN RunRaise(Fault("IndexError", "list index"), "result", r.trace)
     ELSE RunReturn(SetItem(r.locals, RESULT_KEY, r.locals[Len(r.locals)][2]), r.trace)

\* The ambient bindings, lines 74-75: get_context() overridden by kwargs.
Ambient(st, kw) == Update(get_context(st), kw)

\* A run that wraps the parser's faults as it wraps the program's.
PropagateWrapped(code, e) == CodeError(code, e)

\* Line 78 stands outside both try blocks: what leaves run when the parser or the
\* policy checker raises e.
Propagate(code, e) == e

\* run(code, perm, **kw) on a thread whose context list is st.
run(code, kw, st) ==
  LET ctx == Ambient(st, kw)
      parsed == Parse(code)
  IN IF parsed.fault # NoFault
       THEN RunRaise(Propagate(parsed.code, parsed.fault), "parse", <<>>)
     ELSE IF HasValue(parsed.block[Len(parsed.block)])
       THEN RunWithResult(parsed.code, parsed.block, ctx)
       ELSE RunForEffect(parsed.code, parsed.block, ctx)

NoCode == [prog |-> <<>>, parse |-> "ok"]

RunInit ==
  /\ runPc = "idle"
  /\ runCode = NoCode
  /\ runKwargs = EmptyDict
  /\ runOut = NoRun
  /\ runApi = "none"
  /\ callerKwargs = EmptyDict
  /\ prior = {}

\* A run that takes the dict on top of the thread's list for its globals.
RunGlobalsLive(st) == [at |-> Len(st), d |-> get_context(st)]

\* The dict object run makes its globals, line 74: ctx = dict(get_context()) is a
\* new dict with the content of the mapping get_context() returned.
RunGlobals(st) == [at |-> 0, d |-> Snapshot(st).d]

\* The thread's list after ctx.update(kwargs), line 75, on that object.
StoreAfterRun(st, kw) ==
  LET ctx == RunGlobals(st)
  IN IF ctx.at \in 1..Len(st) THEN [st EXCEPT ![ctx.at] = Update(@, kw)] ELSE st

\* A caller calls run(code, perm, **kw); the call ends.
run_call ==
  /\ runPc = "idle"
  /\ \E code \in Sources, kw \in KwDicts :
       /\ runCode' = code
       /\ runKwargs' = kw
       /\ callerKwargs' = kw
       /\ runOut' = run(code, kw, stack)
       /\ stack' = StoreAfterRun(stack, kw)
  /\ runApi' = "run"
  /\ runPc' = "done"
  /\ UNCHANGED <<blocks, raising, restored, got, prior>>
  /\ UNCHANGED sbVars

\* A caller calls sandbox_run(code, perm, timeout=t, **kw): the worker, forked from
\* the calling thread and so with a copy of its list, calls run with the keyword
\* arguments of line 174; runOut is how that call of run ends inside the worker.
sandbox_run_call ==
  /\ runPc = "idle"
  /\ \E code \in Sources, kw \in KwargSets, t \in Timeouts :
       /\ runCode' = code
       /\ runKwargs' = SandboxRunKwargs(t, kw)
       /\ callerKwargs' = kw
       /\ runOut' = run(code, SandboxRunKwargs(t, kw), stack)
  /\ runApi' = "sandbox_run"
  /\ runPc' = "done"
  /\ UNCHANGED prior
  /\ UNCHANGED <<sbVars, ctxVars>>

\* The names of CtxNames that the map a call returned binds.
BoundNames(out) ==
  IF out.kind = "return" THEN {n \in CtxNames : Has(out.locals, n)} ELSE {}

\* The caller has the outcome and goes on.
run_return ==
  /\ runPc = "done"
  /\ runPc' = "idle"
  /\ runCode' = NoCode
  /\ runKwargs' = EmptyDict
  /\ runOut' = NoRun
  /\ runApi' = "none"
  /\ callerKwargs' = EmptyDict
  /\ prior' = BoundNames(runOut)
  /\ UNCHANGED <<sbVars, ctxVars>>

RunNext ==
  \/ run_call
  \/ run_return

\* Calls of run made through sandbox_run.
EntryNext ==
  \/ sandbox_run_call
  \/ run_return

\* run is called with no context(...) block open, or inside one block that binds x.
RunCtxInit ==
  /\ raising = FALSE
  /\ restored = None
  /\ got = None
  /\ \E kw \in {EmptyDict} \cup [{"x"} -> CtxVals] :
       IF kw = EmptyDict
         THEN stack = <<>> /\ blocks = <<>>
         ELSE /\ stack = <<kw>>
              /\ blocks = <<[saved |-> EmptyDict, kwargs |-> kw, at |-> 1]>>

(***************************************************************************)
(* Properties of the evaluation engine.  They compare what run did with    *)
(* the program's own meaning: the preceding statements executed in order   *)
(* against the ambient bindings, then the value of the last statement.     *)
(***************************************************************************)
RunBody == Block(runCode.prog)
LastStmt == RunBody[Len(RunBody)]
RunAmbient == Ambient(stack, runKwargs)
\* The preceding statements, executed.
RefPreceding == Exec(SubSeq(RunBody, 1, Len(RunBody) - 1), RunAmbient, <<>>)
\* The value of the last statement's expression after them.
RefValue == EvalExpression(LastStmt.value, RunAmbient, RefPreceding.locals)
RefClean == RefPreceding.fault = NoFault /\ RefValue.fault = NoFault
\* The first fault that executing the program raises, NoFault if none.
RefFault ==
  IF HasValue(LastStmt)
    THEN IF RefPreceding.fault # NoFault THEN RefPreceding.fault ELSE RefValue.fault
    ELSE Exec(RunBody, RunAmbient, <<>>).fault

Evaluated == runPc = "done" /\ runCode.parse = "ok"
Bound(l, k, v) == Lookup(l, k) = [found |-> TRUE, val |-> v]

\* C7 (trailing expression): when the final statement is a plain expression e and
\* neither the preceding statements nor e raise, run returns a map whose
\* '__result__' is the value of e evaluated after the preceding statements, against
\* the ambient bindings and the locals they produced; otherwise it returns no map.
C7_TrailingExpression ==
  (Evaluated /\ LastStmt.node = "Expr") =>
    IF RefClean
      THEN runOut.kind = "return" /\ Bound(runOut.locals, RESULT_KEY, RefValue.val)
      ELSE runOut.kind = "raise"

\* x = 2 then x + 1, inside context(x=1): the result is 3.
C7_Witness ==
  /\ Evaluated
  /\ runCode.prog = <<6, 3>>
  /\ "x" \in DOMAIN RunAmbient
  /\ runOut.kind = "return"
  /\ Bound(runOut.locals, RESULT_KEY, IntV(3))

\* How many times run evaluated the last statement (executed it, or evaluated its
\* expression).
LastEvaluations ==
  Cardinality({j \in 1..Len(runOut.trace) : runOut.trace[j][2] = Len(RunBody)})

\* C8 (trailing assignment): when the final statement is t1 = t2 = ... = e and run
\* returns a map, the map holds the value of e under '__result__' and under every
\* target name, and e was evaluated exactly once; and run does return when the
\* targets are names and nothing raises.
C8_TrailingAssignment ==
  (Evaluated /\ LastStmt.node = "Assign") =>
    /\ runOut.kind = "return" =>
         /\ RefClean
         /\ Bound(runOut.locals, RESULT_KEY, RefValue.val)
         /\ \A i \in 1..Len(LastStmt.targets) :
              /\ LastStmt.targets[i].node = "Name"
              /\ Bound(runOut.locals, LastStmt.targets[i].id, RefValue.val)
         /\ LastEvaluations = 1
    /\ (RefClean /\ \A i \in 1..Len(LastStmt.targets) : LastStmt.targets[i].node = "Name")
         => runOut.kind = "return"

\* x = x + 1 then x = y = 2: both names and the result are 2.
C8_Witness ==
  /\ Evaluated
  /\ runCode.prog = <<6, 8>>
  /\ runOut.kind = "return"
  /\ Bound(runOut.locals, "x", IntV(2))
  /\ Bound(runOut.locals, "y", IntV(2))
  /\ Bound(runOut.locals, RESULT_KEY, IntV(2))

\* C9 (run fails only in the documented ways): a call of run ends by returning a
\* map that contains '__result__', or by a fault of the parser or policy checker, or
\* by CodeError; no other fault leaves run.
\* (Stated for the faults that are Exceptions, the reading kindest to the code.)
C9_DocumentedFaultsOnly ==
  runPc = "done" =>
    IF runOut.kind = "return"
      THEN Has(runOut.locals, RESULT_KEY)
      ELSE IsException(runOut.fault) =>
             runOut.fault.type \in {"SyntaxError", "PolicyError", "CodeError"}

\* A fault was raised while run executed or evaluated the program.
FaultInExecution == Evaluated /\ runOut.kind = "raise" /\ runOut.phase = "exec"

Rejected == runPc = "done" /\ runCode.parse # "ok"

\* C11 (rejection precedes execution): when the parser or the policy checker fails
\* on the source, run raises that fault as it is, not wrapped as CodeError, and by
\* then no statement of the program has been executed or evaluated and no binding
\* has been produced.
C11_RejectionPrecedesExecution ==
  Rejected =>
    /\ runOut.kind = "raise"
    /\ runOut.fault = Parse(runCode).fault
    /\ runOut.fault.type \in {"SyntaxError", "PolicyError"}
    /\ runOut.trace = <<>>
    /\ runOut.locals = <<>>

\* x = 2 then x + 1, rejected by the policy checker: PolicyError, nothing executed.
C11_Witness ==
  /\ Rejected
  /\ runCode = [prog |-> <<6, 3>>, parse |-> "PolicyError"]
  /\ runOut.fault.type = "PolicyError"
  /\ runOut.trace = <<>>

\* C17 (ambient bindings): through run and through sandbox_run alike, the names the
\* evaluated code can read are the caller's extra bindings over get_context() of
\* the calling thread and no other name, so the call ends as the evaluation of the
\* code against exactly those bindings ends.
C17_AmbientBindings ==
  runPc = "done" =>
    /\ Ambient(stack, runKwargs) = Ambient(stack, callerKwargs)
    /\ runOut = run(runCode, callerKwargs, stack)

\* The Context Store as the caller's open blocks set it up.
StoreSetUp == IF Len(blocks) = 0 THEN <<>> ELSE <<Flattened(blocks, Len(blocks))>>

\* C18 (no state leaks between evaluations): after any number of calls of run,
\* returned or raised, get_context() returns what the open blocks bound, and each
\* call ends as a first call with the same code and bindings would: a name an
\* earlier program assigned is visible only if it is passed in or in the store.
C18_NoStateLeaks ==
  /\ get_context(stack) = Flattened(blocks, Len(blocks))
  /\ runPc = "done" => runOut = run(runCode, runKwargs, StoreSetUp)

\* The previous program assigned x; this one, given a binding of y and no block
\* open, reads x: NameError, wrapped.
C18_Witness ==
  /\ Evaluated
  /\ "x" \in prior
  /\ runCode.prog = <<2>>
  /\ DOMAIN runKwargs = {"y"}
  /\ stack = <<>>
  /\ runOut.kind = "raise"
  /\ runOut.fault.type = "CodeError"
  /\ runOut.fault.cause = Fault("NameError", "x")

\* The names the assignment targets ts[i..] bind, left to right.
RECURSIVE TargetNames(_, _)
TargetNames(ts, i) ==
  IF i > Len(ts) THEN <<>>
  ELSE (IF ts[i].node = "Name" THEN <<ts[i].id>> ELSE ts[i].elts) \o TargetNames(ts, i + 1)

\* The names a statement binds when it executes, in the order it binds them.
Binds(s) ==
  CASE s.node = "Assign" -> TargetNames(s.targets, 1)
    [] s.node = "AugAssign" -> <<s.target>>
    [] s.node = "AnnAssign" -> IF s.value = None THEN <<>> ELSE <<s.target>>
    [] s.node = "For" -> IF s.n = 0 THEN <<>> ELSE <<s.target>>
    [] s.node = "FunctionDef" -> <<s.name>>
    [] OTHER -> <<>>

\* acc followed by the names of ns[i..] it does not hold yet.
RECURSIVE AppendNew(_, _, _)
AppendNew(acc, ns, i) ==
  IF i > Len(ns) THEN acc
  ELSE AppendNew(IF \E j \in 1..Len(acc) : acc[j] = ns[i] THEN acc ELSE Append(acc, ns[i]),
                 ns, i + 1)

\* The local names in the order the statements body[i..] introduce them.
RECURSIVE IntroducedFrom(_, _, _)
IntroducedFrom(body, i, acc) ==
  IF i > Len(body) THEN acc
  ELSE IntroducedFrom(body, i + 1, AppendNew(acc, Binds(body[i]), 1))

\* The local names of a program in the order of their introduction; a program
\* with an annotation starts with __annotations__.
Introduced(body) ==
  IntroducedFrom(body, 1,
    IF \E i \in 1..Len(body) : body[i].node = "AnnAssign"
      THEN <<"__annotations__">> ELSE <<>>)

\* The whole program, final statement included, executed against the ambient
\* bindings.
RefWhole == Exec(RunBody, RunAmbient, <<>>)

AsMap(l) == [n \in {l[i][1] : i \in 1..Len(l)} |-> Lookup(l, n).val]
Without(m, ks) == [n \in DOMAIN m \ ks |-> m[n]]

\* C20 (every statement takes effect): when run returns a map, the map without
\* '__result__' is the local bindings that executing the whole program, final
\* statement included, produces: every name a statement binds or updates has the
\* value the statement gives it, and no ambient binding is in the map.
\* (__annotations__ is left out of the comparison, the reading kindest to the code.)
C20_EveryStatementTakesEffect ==
  (Evaluated /\ runOut.kind = "return") =>
    /\ RefWhole.fault = NoFault
    /\ Without(AsMap(runOut.locals), {RESULT_KEY, "__annotations__"})
         = Without(AsMap(RefWhole.locals), {"__annotations__"})

(***************************************************************************)
(* The specifications.                                                     *)
(***************************************************************************)
vars == <<sbVars, ctxVars, runVars>>

Init == SbInit /\ CtxInit /\ RunInit

SpecSandbox == Init /\ [][SbNext]_vars

SpecContext == Init /\ [][CtxNext]_vars

SpecSnapshot == Init /\ [][SnapNext]_vars

RunSpecInit == SbInit /\ RunCtxInit /\ RunInit

SpecRun == RunSpecInit /\ [][RunNext]_vars

SpecEntry == RunSpecInit /\ [][EntryNext]_vars

====
